---- MODULE Spec2Model ----
(***************************************************************************)
(* restkit.resource: the Resource handle (construction, clone, __call__,   *)
(* update_uri) and the request loop with its response classification.      *)
(*                                                                         *)
(* A URI is a record of its parsed parts; its path is a sequence of        *)
(* one-character strings, so that slash handling and quoting are computed. *)
(* List objects (filter chains) and pool objects live in heaps indexed by  *)
(* reference, because the code shares them by reference.  Reference 0 is   *)
(* an absent key / None.                                                   *)
(***************************************************************************)
EXTENDS Integers, Sequences, FiniteSets, TLC

\* ------------------------------------------------------------ bounds
MaxHandles == 3      \* handles alive in one run
MaxExchanges == 3    \* the exchange counter saturates here (the loop goes on)
MaxPathLen == 6      \* update_uri does not make a longer path
MaxChain == 3        \* the application does not make a filter list longer
NumThreads == 2      \* threads constructing handles at the same time

\* ------------------------------------------------------------ program constants
DefaultTimeout == 300
DefaultKeepalive == 10

None == "None"
Truthy(s) == s # None /\ s # ""

\* ------------------------------------------------------------ URIs
NoUserinfo == [at |-> FALSE, user |-> "", colon |-> FALSE, password |-> ""]
UserPass(u, p) == [at |-> TRUE, user |-> u, colon |-> TRUE, password |-> p]
UserOnly(u) == [at |-> TRUE, user |-> u, colon |-> FALSE, password |-> ""]

Uri(userinfo, host, path) ==
    [scheme |-> "http", userinfo |-> userinfo, host |-> host,
     path |-> path, query |-> ""]

\* http://h/a   http://u:p@h/a   http://u@h/a/   http://:p@h
UriPlain == Uri(NoUserinfo, "h", <<"/", "a">>)
UriUserPass == Uri(UserPass("u", "p"), "h", <<"/", "a">>)
UriUserOnly == Uri(UserOnly("u"), "h", <<"/", "a", "/">>)
UriEmptyUser == Uri(UserPass("", "p"), "h", <<>>)

\* urlparse(uri).username / .password
Username(uri) == IF uri.userinfo.at THEN uri.userinfo.user ELSE None
Password(uri) ==
    IF uri.userinfo.at /\ uri.userinfo.colon THEN uri.userinfo.password ELSE None

\* variant: the URI is kept as it came
StripUserinfo_kept(uri) == uri

\* urlunparse((u.scheme, u.netloc.split("@")[-1], u.path, ...))
StripUserinfo(uri) == [uri EXCEPT !.userinfo = NoUserinfo]

\* ------------------------------------------------------------ util.make_uri
NoPath == [given |-> FALSE, text |-> <<>>]
Path(text) == [given |-> TRUE, text |-> text]

RECURSIVE StripLeft(_)
StripLeft(s) == IF s # <<>> /\ Head(s) = "/" THEN StripLeft(Tail(s)) ELSE s

RECURSIVE StripRight(_)
StripRight(s) ==
    IF s # <<>> /\ s[Len(s)] = "/" THEN StripRight(SubSeq(s, 1, Len(s) - 1)) ELSE s

\* percent-encoding with safe = "/:"
url_quote(s) == [i \in 1..Len(s) |-> IF s[i] = " " THEN "%20" ELSE s[i]]

make_uri(base, path, params) ==
    LET joined == IF path.given
                  THEN StripRight(base.path) \o <<"/">> \o url_quote(StripLeft(path.text))
                  ELSE base.path
    IN [base EXCEPT !.path = joined,
                    !.query = IF params = "" THEN base.query ELSE params]

\* ------------------------------------------------------------ state
VARIABLES
    handles,        \* the Resource objects, in order of creation
    lists,          \* heap of list objects: reference -> sequence of filters
    pools,          \* heap of pool objects: reference -> SimplePool
    _default_pool,  \* the module global: 0 (None) or a pool reference
    call,           \* the request call in progress, or its outcome; after
                    \* close, the record of that call (pc "idle")
    raised,         \* the exception the last handle operation ended with
    origin,         \* history: how each handle was made
    threads         \* threads inside Resource.__init__, each at its own place

vars == <<handles, lists, pools, _default_pool, call, raised, origin, threads>>

BasicAuth(user, password) == [kind |-> "BasicAuth", user |-> user, password |-> password]
CustomFilter == [kind |-> "Custom", user |-> "", password |-> ""]

\* construction options; 0 / "" is an absent key
Opts(filters, pool, timeout) ==
    [filters |-> filters, pool_instance |-> pool, timeout |-> timeout,
     keepalive |-> 0, response_class |-> ""]

\* ------------------------------------------------------------ default_pool
\* a pool object; cleared is the set of host:port it was asked to clear
SimplePool(keepalive, timeout) ==
    [keepalive |-> keepalive, timeout |-> timeout, cleared |-> {}]

\* variant: a pool is made on every call
default_pool_fresh(keepalive, timeout, P, dp) ==
    [pools |-> Append(P, SimplePool(keepalive, timeout)), dp |-> Len(P) + 1]

\* the pool heap and the global after default_pool(keepalive, timeout)
default_pool(keepalive, timeout, P, dp) ==
    IF dp = 0
    THEN [pools |-> Append(P, SimplePool(keepalive, timeout)),
          dp |-> Len(P) + 1]
    ELSE [pools |-> P, dp |-> dp]

\* ------------------------------------------------------------ Resource.__init__
\* the class attribute keepalive: True in Resource, False in a subclass that
\* turns pooling off
keepalive_of(cls) == cls # "NoKeepalive"

\* The object built by cls(uri, **opts) and the heaps after its construction.
New(cls, uri, opts, L, P, dp) ==
    LET initial == [uri |-> uri, client_opts |-> opts]
        co1 == IF opts.response_class = ""
               THEN [opts EXCEPT !.response_class = "HttpResponse"]
               ELSE opts
        needPool == opts.pool_instance = 0 /\ keepalive_of(cls)
        timeout == IF opts.timeout # 0 THEN opts.timeout ELSE DefaultTimeout
        keepalive == IF opts.keepalive # 0 THEN opts.keepalive ELSE DefaultKeepalive
        dflt == IF needPool THEN default_pool(keepalive, timeout, P, dp)
                ELSE [pools |-> P, dp |-> dp]
        co2 == IF needPool THEN [co1 EXCEPT !.pool_instance = dflt.dp] ELSE co1
        \* self.filters = client_opts.get('filters') or []
        keepList == opts.filters # 0 /\ L[opts.filters] # <<>>
        L1 == IF keepList THEN L ELSE Append(L, <<>>)
        selfFilters == IF keepList THEN opts.filters ELSE Len(L) + 1
        hasUser == Truthy(Username(uri))
        password == IF Truthy(Password(uri)) THEN Password(uri) ELSE ""
        \* filters = copy(self.filters); filters.append(BasicAuth(...))
        L2 == IF hasUser
              THEN Append(L1, Append(L1[selfFilters], BasicAuth(Username(uri), password)))
              ELSE L1
        co3 == IF hasUser THEN [co2 EXCEPT !.filters = Len(L1) + 1] ELSE co2
    IN [h |-> [cls |-> cls, initial |-> initial, filters |-> selfFilters,
               uri |-> IF hasUser THEN StripUserinfo(uri) ELSE uri,
               client_opts |-> co3],
        lists |-> L2, pools |-> dflt.pools, dp |-> dflt.dp]

IdleCall ==
    [pc |-> "idle", h |-> 0, method |-> "", path |-> NoPath, payload |-> "",
     params |-> "", exchanges |-> 0, uri |-> UriPlain,
     wire |-> [kind |-> "", status |-> 0, body |-> ""],
     hook |-> "", result |-> [status |-> 0, body |-> ""],
     error |-> [kind |-> "", msg |-> "", http_code |-> 0]]

\* The application's call cls(uri, filters=chain, pool_instance=..., timeout=...):
\* the caller's own list and pool objects are allocated, then __init__ runs.
Constructed(cls, uri, chain, ownPool, timeout, L, P, dp) ==
    LET L0 == IF chain.given THEN Append(L, chain.text) ELSE L
        P0 == IF ownPool THEN Append(P, SimplePool(0, 0)) ELSE P
        opts == Opts(IF chain.given THEN Len(L0) ELSE 0,
                     IF ownPool THEN Len(P0) ELSE 0, timeout)
    IN New(cls, uri, opts, L0, P0, dp)

\* ------------------------------------------------------------ handle operations
Idle == call.pc = "idle"

\* the application builds a handle: cls(uri, filters=chain, pool_instance=...,
\* timeout=..., keepalive=...)
Construct(cls, uri, chain, ownPool, timeout, keepalive) ==
    /\ Idle
    /\ Len(handles) < MaxHandles
    /\ LET L0 == IF chain.given THEN Append(lists, chain.text) ELSE lists
           P0 == IF ownPool THEN Append(pools, SimplePool(0, 0)) ELSE pools
           opts == [Opts(IF chain.given THEN Len(L0) ELSE 0,
                         IF ownPool THEN Len(P0) ELSE 0, timeout)
                      EXCEPT !.keepalive = keepalive]
           n == New(cls, uri, opts, L0, P0, _default_pool)
       IN /\ handles' = Append(handles, n.h)
          /\ lists' = n.lists
          /\ pools' = n.pools
          /\ _default_pool' = n.dp
    /\ origin' = Append(origin, [op |-> "new", src |-> 0, path |-> <<>>, moved |-> FALSE])
    /\ raised' = ""
    /\ UNCHANGED <<call, threads>>

\* how a handle came to be: op(src, path); moved tells that update_uri had
\* changed the source's URI by then
Made(op, i, path) ==
    [op |-> op, src |-> i, path |-> path,
     moved |-> handles[i].uri.path # handles[i].initial.uri.path]

\* variant: the clone is built from the current URI
clone_uri_current(self) == self.uri

\* the URI Resource.clone builds its object from
clone_uri(self) == self.initial.uri

\* variant: the clone is given the options the handle passes to the client
clone_opts_current(self) == self.client_opts

\* the options Resource.clone builds its object with
clone_opts(self) == self.initial.client_opts

\* Resource.clone
clone(i) ==
    /\ Idle
    /\ Len(handles) < MaxHandles
    /\ LET self == handles[i]
           n == New(self.cls, clone_uri(self), clone_opts(self),
                    lists, pools, _default_pool)
       IN /\ handles' = Append(handles, n.h)
          /\ lists' = n.lists
          /\ pools' = n.pools
          /\ _default_pool' = n.dp
          /\ origin' = Append(origin, Made("clone", i, <<>>))
    /\ raised' = ""
    /\ UNCHANGED <<call, threads>>

\* variant: the path is composed onto the current URI
narrow_uri_current(self, path) == make_uri(self.uri, Path(path), "")

\* the URI Resource.__call__(path) builds its object from
narrow_uri(self, path) == make_uri(self.initial.uri, Path(path), "")

\* Resource.__call__
narrow(i, path) ==
    /\ Idle
    /\ Len(handles) < MaxHandles
    /\ LET self == handles[i]
           n == New(self.cls, narrow_uri(self, path), self.initial.client_opts,
                    lists, pools, _default_pool)
       IN /\ handles' = Append(handles, n.h)
          /\ lists' = n.lists
          /\ pools' = n.pools
          /\ _default_pool' = n.dp
          /\ origin' = Append(origin, Made("narrow", i, path))
    /\ raised' = ""
    /\ UNCHANGED <<call, threads>>

\* Resource.update_uri: self.uri is assigned, then self.original does not exist
update_uri(i, path) ==
    /\ Idle
    /\ Len(handles[i].uri.path) + 1 + Len(path) <= MaxPathLen
    /\ handles' = [handles EXCEPT ![i].uri = make_uri(@, Path(path), "")]
    /\ raised' = "AttributeError"
    /\ UNCHANGED <<lists, pools, _default_pool, call, origin, threads>>

\* ------------------------------------------------------------ threads in __init__
\* A thread runs cls(uri, timeout=...) without pool_instance.  Its run of
\* default_pool is three steps that other threads can come between: the test
\* of the global, the creation and assignment, and the return's read.
Thread == 1..Len(threads)

\* if _default_pool is None:
dp_check(t) ==
    /\ threads[t].pc = "start"
    /\ threads' = [threads EXCEPT ![t].pc = "checked", ![t].saw_none = (_default_pool = 0)]
    /\ UNCHANGED <<handles, lists, pools, _default_pool, call, raised, origin>>

\* _default_pool = SimplePool(keepalive=keepalive, timeout=timeout)
dp_create(t) ==
    /\ threads[t].pc = "checked"
    /\ threads[t].saw_none
    /\ pools' = Append(pools, SimplePool(DefaultKeepalive,
                                         IF threads[t].timeout # 0 THEN threads[t].timeout
                                         ELSE DefaultTimeout))
    /\ _default_pool' = Len(pools) + 1
    /\ threads' = [threads EXCEPT ![t].pc = "assigned"]
    /\ UNCHANGED <<handles, lists, call, raised, origin>>

\* return _default_pool, and the rest of __init__ with that pool
dp_return(t) ==
    /\ \/ threads[t].pc = "assigned"
       \/ threads[t].pc = "checked" /\ ~threads[t].saw_none
    /\ LET n == New("Resource", threads[t].uri, Opts(0, _default_pool, threads[t].timeout),
                    lists, pools, _default_pool)
       IN /\ handles' = Append(handles, [n.h EXCEPT !.initial.client_opts.pool_instance = 0])
          /\ lists' = n.lists
    /\ threads' = [threads EXCEPT ![t].pc = "done", ![t].handle = Len(handles) + 1]
    /\ origin' = Append(origin, [op |-> "new", src |-> 0, path |-> <<>>, moved |-> FALSE])
    /\ UNCHANGED <<pools, _default_pool, call, raised>>

\* ------------------------------------------------------------ Resource.close
\* util.parse_netloc(urlparse.urlparse(uri)): the host and port of the URI,
\* the scheme's default port when the URI names none
parse_netloc(uri) ==
    [host |-> uri.host, port |-> IF uri.scheme = "https" THEN 443 ELSE 80]

\* pool.clear_host(netloc)
clear_host(pool, netloc) == [pool EXCEPT !.cleared = @ \cup {netloc}]

\* variant: the pool is looked up in the options given at construction
close_pool_initial(self) == self.initial.client_opts.pool_instance

\* pool = self.client_opts.get('pool_instance')
close_pool(self) == self.client_opts.pool_instance

\* Resource.close
close(i) ==
    /\ Idle
    /\ LET self == handles[i]
           pool == close_pool(self)
       IN pools' = IF pool = 0 THEN pools
                   ELSE [pools EXCEPT ![pool] = clear_host(@, parse_netloc(self.uri))]
    /\ call' = [IdleCall EXCEPT !.method = "close", !.h = i]
    /\ raised' = ""
    /\ UNCHANGED <<handles, lists, _default_pool, origin, threads>>

\* ------------------------------------------------------------ the filter chain
\* the list object the handle passes to the client as filters, 0 when the
\* options hold none, and its filters
chain_ref(self) == self.client_opts.filters
ChainOf(self) == IF chain_ref(self) = 0 THEN <<>> ELSE lists[chain_ref(self)]

AddedFilter == [kind |-> "Added", user |-> "", password |-> ""]

\* the application appends a filter to the chain of a handle
add_filter(i) ==
    /\ Idle
    /\ chain_ref(handles[i]) # 0
    /\ Len(ChainOf(handles[i])) < MaxChain
    /\ lists' = [lists EXCEPT ![chain_ref(handles[i])] = Append(@, AddedFilter)]
    /\ raised' = ""
    /\ UNCHANGED <<handles, pools, _default_pool, call, origin, threads>>

\* the application removes the last filter of the chain of a handle
remove_filter(i) ==
    /\ Idle
    /\ chain_ref(handles[i]) # 0
    /\ ChainOf(handles[i]) # <<>>
    /\ lists' = [lists EXCEPT ![chain_ref(handles[i])] = SubSeq(@, 1, Len(@) - 1)]
    /\ raised' = ""
    /\ UNCHANGED <<handles, pools, _default_pool, call, origin, threads>>

\* ------------------------------------------------------------ Resource.request
Methods == {"GET", "HEAD", "DELETE", "POST", "PUT"}

Response(status, body) == [kind |-> "resp", status |-> status, body |-> body]
\* the transport completed and handed back no response object
NoResponse == [kind |-> "none", status |-> 0, body |-> ""]
\* http.request raised exc (connection refused, timeout, malformed response)
TransportFailure(exc) == [kind |-> "fail", status |-> 0, body |-> exc]

NoError == [kind |-> "", msg |-> "", http_code |-> 0]
NoResult == [status |-> 0, body |-> ""]

\* Resource.unauthorized; a subclass overrides the hook and answers as it likes
unauthorized(self, answer) == IF self.cls = "Resource" THEN TRUE ELSE answer

\* the exchange counter after one more http.request call
Counted(n) == IF n < MaxExchanges THEN n + 1 ELSE n

\* variant: the hook's answer read the other way round
classify_inverted(self, w, answer) ==
    IF w.status >= 400
    THEN IF w.status = 404
         THEN "ResourceNotFound"
         ELSE IF w.status \in {401, 403}
         THEN IF ~unauthorized(self, answer) THEN "Unauthorized" ELSE "retry"
         ELSE "RequestFailed"
    ELSE "break"

\* variant: redirects taken for errors
classify_300(self, w, answer) ==
    IF w.status >= 300
    THEN IF w.status = 404
         THEN "ResourceNotFound"
         ELSE IF w.status \in {401, 403}
         THEN IF unauthorized(self, answer) THEN "Unauthorized" ELSE "retry"
         ELSE "RequestFailed"
    ELSE "break"

\* variant: no branch for 404
classify_no404(self, w, answer) ==
    IF w.status >= 400
    THEN IF w.status \in {401, 403}
         THEN IF unauthorized(self, answer) THEN "Unauthorized" ELSE "retry"
         ELSE "RequestFailed"
    ELSE "break"

\* The if/elif chain on resp.status_int: the exception class to raise, "retry"
\* when no branch raises and the loop goes round, "break" below 400.
classify(self, w, answer) ==
    IF w.status >= 400
    THEN IF w.status = 404
         THEN "ResourceNotFound"
         ELSE IF w.status \in {401, 403}
         THEN IF unauthorized(self, answer) THEN "Unauthorized" ELSE "retry"
         ELSE "RequestFailed"
    ELSE "break"

\* variant: http_code left out of the raise
raise_args_nocode(kind, w) == [kind |-> kind, msg |-> w.body, http_code |-> 0]

\* the arguments each raise passes: (resp.body_string(), http_code=...)
raise_args(kind, w) ==
    [kind |-> kind, msg |-> w.body,
     http_code |-> IF kind = "ResourceNotFound" THEN 0 ELSE w.status]

\* raise ValueError("Unkown error: response object is None")
none_error ==
    [kind |-> "ValueError", msg |-> "Unkown error: response object is None",
     http_code |-> 0]

\* variant: the exception is swallowed and the loop goes round
propagate_retry(c, w) == c

\* http.request raised: nothing in request catches it
propagate(c, w) ==
    [c EXCEPT !.pc = "raised", !.error = [kind |-> w.body, msg |-> "", http_code |-> 0]]

\* variant: each pass composes onto the URI of the pass before
request_uri_kept(self, c) ==
    make_uri(IF c.exchanges = 0 THEN self.uri ELSE c.uri, c.path, c.params)

\* the URI one pass sends: util.make_uri(self.uri, path, **params)
request_uri(self, c) == make_uri(self.uri, c.path, c.params)

\* One pass of the while loop for the transport outcome w: what the call record
\* becomes.  pc stays "running" when the loop goes round again.  hook records
\* what self.unauthorized(resp) answered on a 401/403.
request_step(self, c, w, answer) ==
    LET sent == [c EXCEPT !.uri = request_uri(self, c),
                          !.exchanges = Counted(c.exchanges),
                          !.wire = w,
                          !.hook = IF w.kind = "resp" /\ w.status \in {401, 403}
                                   THEN IF unauthorized(self, answer)
                                        THEN "True" ELSE "False"
                                   ELSE ""]
        outcome == classify(self, w, answer)
    IN IF w.kind = "fail" THEN propagate(sent, w)
       ELSE IF w.kind = "none" THEN [sent EXCEPT !.pc = "raised", !.error = none_error]
       ELSE IF outcome = "break"
       THEN [sent EXCEPT !.pc = "returned",
                         !.result = [status |-> w.status, body |-> w.body]]
       ELSE IF outcome = "retry" THEN sent
       ELSE [sent EXCEPT !.pc = "raised", !.error = raise_args(outcome, w)]

\* entry into request(method, path, payload, headers, **params)
request(i, method, path, payload, params) ==
    /\ Idle
    /\ call' = [IdleCall EXCEPT !.pc = "running", !.h = i, !.method = method,
                                !.path = path, !.payload = payload, !.params = params]
    /\ raised' = ""
    /\ UNCHANGED <<handles, lists, pools, _default_pool, origin, threads>>

get(i, path, params) == request(i, "GET", path, "", params)
head(i, path, params) == request(i, "HEAD", path, "", params)
delete(i, path, params) == request(i, "DELETE", path, "", params)
post(i, path, payload, params) == request(i, "POST", path, payload, params)
put(i, path, payload, params) == request(i, "PUT", path, payload, params)

\* one pass of the loop, the transport outcome drawn from W
Attempt(W) ==
    /\ call.pc = "running"
    /\ \E w \in W, answer \in BOOLEAN :
          call' = request_step(handles[call.h], call, w, answer)
    /\ UNCHANGED <<handles, lists, pools, _default_pool, raised, origin, threads>>

\* request has returned or raised; control is back in the caller
Return ==
    /\ call.pc \in {"returned", "raised"}
    /\ call' = IdleCall
    /\ raised' = IF call.pc = "raised" THEN call.error.kind ELSE ""
    /\ UNCHANGED <<handles, lists, pools, _default_pool, origin, threads>>

\* ------------------------------------------------------------ inputs
Bodies == {"x", "y"}
Statuses == {200, 399, 400, 401, 403, 404, 500}
Wires == {Response(st, b) : st \in Statuses, b \in Bodies}
             \cup {NoResponse, TransportFailure("RequestError")}
Classes == {"Resource", "Sub"}
RootUris == {UriPlain, UriUserPass, UriUserOnly, UriEmptyUser}
Chains == {NoPath, Path(<<CustomFilter>>)}
NarrowPaths == {<<"b">>, <<"/", "c", " ">>}
RequestPaths == {NoPath, Path(<<"d">>)}
UpdatePaths == {<<"e">>}

\* ------------------------------------------------------------ specifications
Handle == 1..Len(handles)

\* the state after the application built one handle
Built(cls, uri, chain) ==
    LET n == Constructed(cls, uri, chain, FALSE, 0, <<>>, <<>>, 0)
    IN /\ handles = <<n.h>>
       /\ lists = n.lists
       /\ pools = n.pools
       /\ _default_pool = n.dp
       /\ call = IdleCall
       /\ raised = ""
       /\ origin = <<[op |-> "new", src |-> 0, path |-> <<>>, moved |-> FALSE]>>
       /\ threads = <<>>

\* Spec: one handle, just built, and every request that can be issued through it.
Init == \E cls \in Classes, uri \in RootUris, chain \in Chains : Built(cls, uri, chain)

Next ==
    \/ \E i \in Handle, p \in RequestPaths : get(i, p, "")
    \/ \E i \in Handle, p \in RequestPaths : head(i, p, "")
    \/ \E i \in Handle, p \in RequestPaths : delete(i, p, "")
    \/ \E i \in Handle, p \in RequestPaths : post(i, p, "data", "")
    \/ \E i \in Handle, p \in RequestPaths : put(i, p, "data", "")
    \/ \E i \in Handle, p \in UpdatePaths : update_uri(i, p)
    \/ Attempt(Wires)
    \/ Return

Spec == Init /\ [][Next]_vars

\* The loop is running code and the transport always answers: a pass that can
\* be made is made.
FairSpec == Spec /\ WF_vars(Attempt(Wires))

\* HandleSpec: the handle is cloned and narrowed, and so are the handles made
\* from it; requests go through all of them.
FewWires == {Response(200, "x"), Response(404, "y")}

\* the constructions the application starts from: <<class, uri, filters option>>
Roots ==
    {<<"Resource", UriPlain, NoPath>>, <<"Resource", UriUserPass, Path(<<CustomFilter>>)>>,
     <<"Sub", UriPlain, Path(<<CustomFilter>>)>>, <<"Sub", UriUserPass, NoPath>>}

InitHandle == \E r \in Roots : Built(r[1], r[2], r[3])

NextHandle ==
    \/ \E i \in Handle : clone(i)
    \/ \E i \in Handle, p \in NarrowPaths : narrow(i, p)
    \/ \E i \in Handle, p \in UpdatePaths : update_uri(i, p)
    \/ \E i \in Handle : get(i, Path(<<"d">>), "")
    \/ Attempt(FewWires)
    \/ Return

HandleSpec == InitHandle /\ [][NextHandle]_vars

\* BuildSpec: the application builds handles one after the other, with and
\* without its own pool, and clones and narrows them.
InitEmpty ==
    /\ handles = <<>>
    /\ lists = <<>>
    /\ pools = <<>>
    /\ _default_pool = 0
    /\ call = IdleCall
    /\ raised = ""
    /\ origin = <<>>
    /\ threads = <<>>

\* <<class, uri, filters option, pool_instance given, timeout option,
\*   keepalive option>>
BuildInputs ==
    {<<"Resource", UriPlain, NoPath, FALSE, 0, 0>>,
     <<"Resource", UriPlain, Path(<<CustomFilter>>), TRUE, 0, 0>>,
     <<"Resource", UriUserPass, Path(<<CustomFilter>>), FALSE, 60, 0>>,
     <<"Sub", UriUserPass, NoPath, TRUE, 60, 5>>,
     <<"Resource", UriUserOnly, Path(<<>>), FALSE, 0, 5>>,
     <<"Sub", UriUserOnly, Path(<<CustomFilter>>), FALSE, 60, 5>>,
     <<"Resource", UriEmptyUser, NoPath, FALSE, 0, 0>>,
     <<"Sub", UriPlain, Path(<<>>), FALSE, 60, 0>>}

NextBuild ==
    \/ \E b \in BuildInputs : Construct(b[1], b[2], b[3], b[4], b[5], b[6])
    \/ \E i \in Handle : clone(i)
    \/ \E i \in Handle, p \in NarrowPaths : narrow(i, p)

BuildSpec == InitEmpty /\ [][NextBuild]_vars

\* CloseSpec: handles of two hosts sharing the default pool, a handle with its
\* own pool and a handle without pool are built, closed and used for requests.
UriOtherHost == Uri(NoUserinfo, "g", <<"/">>)

CloseInputs ==
    {<<"Resource", UriPlain, NoPath, FALSE, 0, 0>>,
     <<"Resource", UriOtherHost, NoPath, FALSE, 0, 0>>,
     <<"Sub", UriUserPass, Path(<<CustomFilter>>), TRUE, 0, 0>>,
     <<"NoKeepalive", UriPlain, NoPath, FALSE, 0, 0>>}

NextClose ==
    \/ \E b \in CloseInputs : Construct(b[1], b[2], b[3], b[4], b[5], b[6])
    \/ \E i \in Handle : close(i)
    \/ \E i \in Handle : get(i, Path(<<"d">>), "")
    \/ Attempt(FewWires)
    \/ Return

CloseSpec == InitEmpty /\ [][NextClose]_vars

\* ThreadSpec: NumThreads threads each construct their first handle, no handle
\* and no default pool existing yet.
ThreadInputs == {[uri |-> u, timeout |-> t] : u \in {UriPlain, UriUserPass}, t \in {0, 60}}

InitThreads ==
    /\ handles = <<>>
    /\ lists = <<>>
    /\ pools = <<>>
    /\ _default_pool = 0
    /\ call = IdleCall
    /\ raised = ""
    /\ origin = <<>>
    /\ \E in \in [1..NumThreads -> ThreadInputs] :
          threads = [t \in 1..NumThreads |->
                        [pc |-> "start", uri |-> in[t].uri, timeout |-> in[t].timeout,
                         saw_none |-> FALSE, handle |-> 0]]

NextThreads ==
    \/ \E t \in Thread : dp_check(t)
    \/ \E t \in Thread : dp_create(t)
    \/ \E t \in Thread : dp_return(t)

ThreadSpec == InitThreads /\ [][NextThreads]_vars

\* FilterSpec: a handle is cloned and the application changes filter chains.
NextFilter ==
    \/ \E i \in Handle : clone(i)
    \/ \E i \in Handle : add_filter(i)
    \/ \E i \in Handle : remove_filter(i)

FilterSpec == InitHandle /\ [][NextFilter]_vars

\* ------------------------------------------------------------ claims
Self == handles[call.h]
IsAuthStatus(w) == w.kind = "resp" /\ w.status \in {401, 403}
\* a pass of the loop has just been made
Passed == call.pc = "running" /\ call'.pc # "idle" /\ call' # call

\* C1: one request call performs at most two http.request exchanges (at most
\* one retry), whatever the server sends and whatever the hook answers.
AtMostOneRetry == call.exchanges <= 2

\* C2: every request call terminates: it returns a response or raises, also
\* when every attempt is answered 401/403 and the hook asks for a retry each time.
RequestTerminates == (call.pc = "running") ~> (call.pc # "running")

\* C3: on a 401/403 the loop goes round again exactly when the hook signals that
\* the challenge was handled (unauthorized() answers False); otherwise the call
\* ends with Unauthorized carrying that status and body; with the default hook
\* that happens after the single exchange.
RetryIffHandled ==
    [][(Passed /\ IsAuthStatus(call'.wire)) =>
          /\ (call'.pc = "running") <=> (call'.hook = "False")
          /\ (call'.pc # "running") =>
                /\ call'.pc = "raised"
                /\ call'.error = [kind |-> "Unauthorized", msg |-> call'.wire.body,
                                  http_code |-> call'.wire.status]
          /\ (Self.cls = "Resource") =>
                /\ call'.hook = "True"
                /\ call'.pc = "raised"
                /\ call'.exchanges = 1]_vars

RetriedThenUnauthorized ==
    /\ call.pc = "raised"
    /\ call.exchanges = 2
    /\ call.hook = "True"
    /\ call.error = [kind |-> "Unauthorized", msg |-> "y", http_code |-> 403]

\* C4: when the first exchange of a call is answered with a status below 400,
\* the call returns that response, status and body as sent, after exactly that
\* one exchange and without an error.
FirstSuccessIsReturned ==
    (call.exchanges = 1 /\ call.wire.kind = "resp" /\ call.wire.status < 400) =>
        /\ call.pc = "returned"
        /\ call.result = [status |-> call.wire.status, body |-> call.wire.body]
        /\ call.error = NoError

ReturnedAfterOneExchange ==
    /\ call.pc = "returned"
    /\ call.exchanges = 1
    /\ call.method = "GET"
    /\ call.result = [status |-> 399, body |-> "y"]

\* C5: an exchange answered 404 ends the call with ResourceNotFound carrying the
\* body text, for every method and whatever the hook would answer; it is never
\* retried and never reported as another error.
NotFoundRaised ==
    (call.wire.kind = "resp" /\ call.wire.status = 404) =>
        /\ call.pc = "raised"
        /\ call.error = [kind |-> "ResourceNotFound", msg |-> call.wire.body,
                         http_code |-> 0]
        /\ call.hook = ""
        /\ call.result = NoResult

NotFoundOnRetryOfHead ==
    /\ call.pc = "raised"
    /\ call.method = "HEAD"
    /\ Self.cls = "Sub"
    /\ call.exchanges = 2
    /\ call.error.kind = "ResourceNotFound"
    /\ call.error.msg = "x"

\* C6: an exchange answered with a status of 400 or more other than 401, 403 and
\* 404 ends the call with RequestFailed carrying that status and the body; it is
\* neither retried nor returned.
OtherErrorsFail ==
    (call.wire.kind = "resp" /\ call.wire.status >= 400
        /\ call.wire.status \notin {401, 403, 404}) =>
        /\ call.pc = "raised"
        /\ call.error = [kind |-> "RequestFailed", msg |-> call.wire.body,
                         http_code |-> call.wire.status]
        /\ call.result = NoResult

FailedWithStatus400 ==
    /\ call.pc = "raised"
    /\ call.exchanges = 2
    /\ call.error = [kind |-> "RequestFailed", msg |-> "y", http_code |-> 400]

\* C7: when http.request fails on any attempt, the call ends at once with that
\* failure: no further exchange follows in that call.
TransportFailureSurfaces ==
    (call.wire.kind = "fail") =>
        /\ call.pc = "raised"
        /\ call.error.kind = call.wire.body
        /\ call.result = NoResult

FailureOnRetrySurfaced ==
    /\ call.wire.kind = "fail"
    /\ call.exchanges = 2
    /\ call.pc = "raised"
    /\ call.error.kind = "RequestError"

\* C8: when the transport hands back no response object, the call ends with an
\* error of kind RequestError.
NoneIsRequestError ==
    (call.wire.kind = "none") =>
        /\ call.pc = "raised"
        /\ call.error.kind = "RequestError"

\* a step that made a handle by op; Newest is that handle's index
Newest == Len(handles')
MadeBy(op) == Len(handles') > Len(handles) /\ origin'[Newest].op = op
\* base + "/" + path
Joined(base, path) ==
    [base EXCEPT !.path = StripRight(base.path) \o <<"/">> \o url_quote(StripLeft(path))]
\* the URI a handle built from u holds
Held(u) == IF Truthy(Username(u)) THEN [u EXCEPT !.userinfo = NoUserinfo] ELSE u

\* C9 as stated: the clone of a handle r obtained by narrowing (r = root(path))
\* equals a handle freshly built from root's original URI and options; its URI
\* does not contain the narrowed path.
CloneOfNarrowedIsRoot ==
    [][(MadeBy("clone") /\ origin[origin'[Newest].src].op = "narrow") =>
          LET r == origin'[Newest].src
              root == handles[origin[r].src]
              c == handles'[Newest]
          IN /\ c.initial.uri = root.initial.uri
             /\ c.initial.client_opts = root.initial.client_opts
             /\ c.uri = Held(root.initial.uri)]_vars

\* C9 amended: the clone of a handle r obtained by narrowing (r = root(path))
\* equals a handle freshly built from r's own construction URI, which is root's
\* original URI joined with path, and from root's options: its URI contains the
\* narrowed path, and nothing update_uri did to r.
CloneOfNarrowedKeepsPath ==
    [][(MadeBy("clone") /\ origin[origin'[Newest].src].op = "narrow") =>
          LET r == origin'[Newest].src
              root == handles[origin[r].src]
              c == handles'[Newest]
          IN /\ c.initial.uri = Joined(root.initial.uri, origin[r].path)
             /\ c.initial.client_opts = root.initial.client_opts
             /\ c.uri = Held(c.initial.uri)
             /\ c.cls = root.cls]_vars

ClonedAfterNarrowAndUpdate ==
    \E k \in Handle :
        /\ origin[k].op = "clone"
        /\ origin[origin[k].src].op = "narrow"
        /\ origin[k].moved
        /\ handles[k].initial.uri.userinfo.at
        /\ handles[k].uri = Uri(NoUserinfo, "h", <<"/", "a", "/", "b">>)

\* C10: narrow composes the path onto the source handle's construction URI and
\* leaves every existing handle as it was: the new handle's URI is that base,
\* "/", and the path, with nothing of earlier narrow calls, of request paths or
\* of what update_uri made of the source's current URI.
NarrowFromOriginalBase ==
    [][MadeBy("narrow") =>
          LET i == origin'[Newest].src
              n == handles'[Newest]
          IN /\ n.initial.uri = Joined(handles[i].initial.uri, origin'[Newest].path)
             /\ n.uri = Held(n.initial.uri)
             /\ \A j \in 1..Len(handles) : handles'[j] = handles[j]
             /\ \A l \in 1..Len(lists) : lists'[l] = lists[l]]_vars

NarrowedTwiceFromMovedRoot ==
    \E j, k \in Handle :
        /\ j < k
        /\ origin[j].op = "narrow" /\ origin[k].op = "narrow"
        /\ origin[j].src = 1 /\ origin[k].src = 1
        /\ origin[j].path = <<"b">>
        /\ origin[k].moved
        /\ handles[k].initial.uri = Uri(UserPass("u", "p"), "h", <<"/", "a", "/", "c", "%20">>)
        /\ handles[k].uri = Uri(NoUserinfo, "h", <<"/", "a", "/", "c", "%20">>)

\* C11: the chain of a clone is independent of the chain of its source: no
\* change the application makes to the one (a filter added or removed) shows
\* in the other, with userinfo in the URI or with a supplied filters list.
CloneChainIndependent ==
    [][\A k \in Handle :
          origin[k].op = "clone" =>
              ~ /\ ChainOf(handles[k])' # ChainOf(handles[k])
                /\ ChainOf(handles[origin[k].src])' # ChainOf(handles[origin[k].src])]_vars

\* the filters list the caller supplied to a handle's construction
Supplied(h) ==
    IF h.initial.client_opts.filters = 0 THEN <<>>
    ELSE lists[h.initial.client_opts.filters]

Unmoved(h) == h.uri.path = h.initial.uri.path

\* C13: a clone made of a handle that was built and not changed since is
\* equivalent to it: the same current URI (without userinfo), the same filters
\* in the same order (the BasicAuth with the same user and password included),
\* the same class and pool; requests issued through the handle do not change that.
CloneEquivalent ==
    \A k \in Handle :
        (/\ origin[k].op = "clone"
         /\ ~origin[k].moved
         /\ Unmoved(handles[k])
         /\ Unmoved(handles[origin[k].src])) =>
            LET c == handles[k]
                h == handles[origin[k].src]
            IN /\ c.uri = h.uri
               /\ ChainOf(c) = ChainOf(h)
               /\ c.cls = h.cls
               /\ c.client_opts.pool_instance = h.client_opts.pool_instance
               /\ c.client_opts.timeout = h.client_opts.timeout

ClonedWithCredentialsAndRequested ==
    \E k \in Handle :
        /\ origin[k].op = "clone"
        /\ origin[origin[k].src].op = "new"
        /\ handles[origin[k].src].initial.uri = UriUserPass
        /\ handles[k].uri = handles[origin[k].src].uri
        /\ ~handles[k].uri.userinfo.at
        /\ ChainOf(handles[k]) = <<CustomFilter, BasicAuth("u", "p")>>
        /\ ChainOf(handles[origin[k].src]) = <<CustomFilter, BasicAuth("u", "p")>>
        /\ call.pc = "raised"
        /\ call.h = origin[k].src

\* a handle has just been made
Grown == Len(handles') = Len(handles) + 1

\* C14: the default pool is one object for the whole process: the first handle
\* made without pool_instance creates it, every later such handle holds that
\* same pool whatever timeout and keepalive it was given, the pool is never
\* replaced or reset, and a handle given a pool_instance keeps its own pool
\* and neither creates nor changes the default one.
DefaultPoolSingleton ==
    [][/\ _default_pool # 0 =>
            /\ _default_pool' = _default_pool
            /\ pools'[_default_pool] = pools[_default_pool]
       /\ Grown =>
            LET n == handles'[Len(handles')]
            IN IF n.initial.client_opts.pool_instance = 0
               THEN /\ _default_pool' # 0
                    /\ n.client_opts.pool_instance = _default_pool'
                    /\ IF _default_pool = 0
                       THEN /\ _default_pool' = Len(pools')
                            /\ Len(pools') = Len(pools) + 1
                       ELSE pools' = pools
               ELSE /\ n.client_opts.pool_instance = n.initial.client_opts.pool_instance
                    /\ n.client_opts.pool_instance # _default_pool'
                    /\ _default_pool' = _default_pool
                    /\ \A p \in 1..Len(pools) : pools'[p] = pools[p]]_vars

DefaultPoolSharedAcrossOptions ==
    /\ Len(handles) = 3
    /\ handles[1].initial.client_opts.pool_instance # 0
    /\ handles[1].client_opts.pool_instance # _default_pool
    /\ handles[2].initial.client_opts.pool_instance = 0
    /\ handles[3].initial.client_opts.pool_instance = 0
    /\ origin[3].op = "new"
    /\ handles[2].initial.client_opts.timeout # handles[3].initial.client_opts.timeout
    /\ handles[2].initial.client_opts.keepalive # handles[3].initial.client_opts.keepalive
    /\ handles[2].client_opts.pool_instance = _default_pool
    /\ handles[3].client_opts.pool_instance = _default_pool
    /\ pools[_default_pool].timeout = 60

\* close has just been called on handle call'.h
Closed == call'.method = "close" /\ call' # call

\* C15: close() has the handle's pool clear the host:port of the handle's
\* current URI and nothing else, does nothing when the handle has no pool, and
\* leaves the handle's URI, options and filter chain as they were; a pass of a
\* request made afterwards has the outcome it has on a handle without pool.
CloseClearsOwnHost ==
    [][/\ (call.pc = "running" /\ call' # call) =>
            \E w \in FewWires :
                call' = request_step([handles[call.h] EXCEPT
                                         !.client_opts.pool_instance = 0],
                                     call, w, TRUE)
       /\ Closed =>
          LET i == call'.h
              p == handles[i].client_opts.pool_instance
          IN /\ handles' = handles
             /\ lists' = lists
             /\ _default_pool' = _default_pool
             /\ raised' = ""
             /\ Len(pools') = Len(pools)
             /\ \A q \in 1..Len(pools) :
                   pools'[q] =
                     IF q = p
                     THEN [pools[q] EXCEPT !.cleared =
                             @ \cup {[host |-> handles[i].uri.host, port |-> 80]}]
                     ELSE pools[q]]_vars

ClosedOneHostThenRequested ==
    /\ _default_pool # 0
    /\ pools[_default_pool].cleared = {[host |-> "g", port |-> 80]}
    /\ \E i, j \in Handle :
          /\ handles[i].uri.host = "h"
          /\ handles[i].client_opts.pool_instance = _default_pool
          /\ handles[j].client_opts.pool_instance = 0
    /\ call.pc = "returned"
    /\ handles[call.h].uri.host = "g"
    /\ call.result.status = 200

\* C16: update_uri(path) ends without error and moves both the handle's
\* current URI and the stored construction URI that clone and narrowing start
\* from; the current URI is never changed while the stored one stays behind.
UpdateUriMovesBoth ==
    [][\A i \in Handle :
          handles'[i].uri # handles[i].uri =>
              /\ raised' = ""
              /\ handles'[i].initial.uri # handles[i].initial.uri
              /\ handles'[i].uri = Held(handles'[i].initial.uri)]_vars

\* C17: request and the verb shorthands leave the handle as it was, whether
\* they return or raise: no step of a call changes a handle's URI, construction
\* identity, options or filter chain; every pass composes its URI from the
\* handle's URI and the call's path, and nothing of the call is kept once it
\* has ended.
RequestLeavesHandle ==
    [][call' # call =>
          /\ handles' = handles
          /\ lists' = lists
          /\ pools' = pools
          /\ _default_pool' = _default_pool
          /\ Passed =>
                call'.uri = IF call.path.given THEN Joined(Self.uri, call.path.text)
                            ELSE Self.uri
          /\ call.pc \in {"returned", "raised"} => call' = IdleCall]_vars

SecondPassFromSameBase ==
    /\ call.pc = "raised"
    /\ call.method = "PUT"
    /\ call.exchanges = 2
    /\ call.path = Path(<<"d">>)
    /\ Self.uri = Uri(NoUserinfo, "h", <<"/", "a">>)
    /\ Self.initial.uri = UriUserPass
    /\ call.uri = Uri(NoUserinfo, "h", <<"/", "a", "/", "d">>)
    /\ ChainOf(Self) = <<CustomFilter, BasicAuth("u", "p")>>

\* the number of BasicAuth filters in a chain
BasicAuths(chain) == Cardinality({j \in 1..Len(chain) : chain[j].kind = "BasicAuth"})

\* C18: every handle on a chain of clones and narrowed handles that starts at a
\* handle built from a URI with userinfo has a current URI without userinfo and
\* exactly one BasicAuth in the chain it passes to the client, and the list the
\* caller supplied is as long as it was (it has gained no BasicAuth).
CredentialsOnceAlongChain ==
    \A k \in Handle :
        handles[k].initial.uri.userinfo.at =>
            /\ ~handles[k].uri.userinfo.at
            /\ BasicAuths(ChainOf(handles[k])) = 1
            /\ BasicAuths(Supplied(handles[k])) = 0
            /\ Len(Supplied(handles[k])) <= 1

\* C19: when threads construct their first handles at the same time, none
\* with a pool_instance, at most one default pool is ever created and the
\* handles all hold the same pool, however the test and the assignment in
\* default_pool interleave.
OneDefaultPoolUnderThreads ==
    /\ Len(pools) <= 1
    /\ \A i, j \in Handle :
          handles[i].client_opts.pool_instance = handles[j].client_opts.pool_instance

====
